---------------------------- MODULE Spec2Model ----------------------------
(***************************************************************************)
(* Model of the Loxone Miniserver WebSocket client (src/api.rs).           *)
(*                                                                         *)
(* The client owns both halves of the transport.  Every facade call       *)
(* writes one command and then reads ONE logical message from the read     *)
(* half with parse_msg_next (one or two header frames and at most one     *)
(* payload frame).  The Miniserver is the environment: it appends frames  *)
(* to the read half (rx) at any time.                                      *)
(*                                                                         *)
(* Bytes are naturals 0..255, a frame is [t, data] with t the tungstenite *)
(* message kind and data its bytes, a stream item is a frame or the       *)
(* transport error item.                                                   *)
(***************************************************************************)
EXTENDS Integers, Sequences, FiniteSets, TLC

\* Bounds of the model.
MaxCalls == 2
MaxMsgs == 2
MaxDrops == 1
MaxRecords == 2

---------------------------------------------------------------------------
\* Frames and stream items

Bin(d) == [t |-> "binary", data |-> d]
Txt(d) == [t |-> "text", data |-> d]
ErrItem == [t |-> "err", data |-> <<>>]

\* pack[a..b] of the source: a Rust range, 0-based, end exclusive
Slice(pack, a, b) == SubSeq(pack, a + 1, b)

\* u32::from_le_bytes (the inputs of the model keep the top byte below 128)
U32LE(b) == b[1] + 256 * b[2] + 65536 * b[3] + 16777216 * b[4]

\* i32::from_le_bytes
I32LE(b) == IF b[4] >= 128 THEN U32LE(<<b[1], b[2], b[3], b[4] - 128>>) - 2147483647 - 1
            ELSE U32LE(b)

Reverse(s) == [i \in 1..Len(s) |-> s[Len(s) + 1 - i]]

\* the bytes of a u128 taken in the order they come
U128LE_asis(b) == b

\* u128::from_le_bytes: the value as its base-256 digits, most significant first
U128LE(b) == Reverse(b)

\* f64::from_le_bytes, a bit cast: the bit pattern, most significant byte first
F64LE(b) == Reverse(b)

\* String::from_utf8_lossy on the bytes the model uses (ASCII, and 0xFF which
\* is never valid UTF-8): each invalid byte becomes U+FFFD
from_utf8_lossy(b) == [i \in 1..Len(b) |-> IF b[i] < 128 THEN b[i] ELSE 65533]

---------------------------------------------------------------------------
\* Logical messages (enum LoxoneMessage)

Msg(v, tbl, d) == [v |-> v, tbl |-> tbl, data |-> d]
NoMsg == Msg("", "", <<>>)

\* The result of a parsing step: a panic (why) or a value.
BodyPanic(why) == [panic |-> TRUE, why |-> why, msg |-> NoMsg]
BodyOk(m) == [panic |-> FALSE, why |-> "", msg |-> m]
EventsPanic(why) == [panic |-> TRUE, why |-> why, events |-> <<>>]

\* while n < pack.len() of identifier 0x02
RECURSIVE ValueEventsLoop(_, _, _)
ValueEventsLoop(pack, n, events) ==
    IF ~(n < Len(pack)) THEN [panic |-> FALSE, why |-> "", events |-> events]
    ELSE IF n + 24 > Len(pack) THEN EventsPanic("slice out of range")
    ELSE ValueEventsLoop(pack, n + 24,
            Append(events, [uuid |-> U128LE(Slice(pack, n, n + 16)),
                            val |-> F64LE(Slice(pack, n + 16, n + 24))]))

\* the loop of identifier 0x03 without the skip of the padding
RECURSIVE TextEventsLoop_nopad(_, _, _)
TextEventsLoop_nopad(pack, n, events) ==
    IF ~(n < Len(pack)) THEN [panic |-> FALSE, why |-> "", events |-> events]
    ELSE IF n + 36 > Len(pack) THEN EventsPanic("slice out of range")
    ELSE LET text_len == U32LE(Slice(pack, n + 32, n + 36))
         IN IF n + 36 + text_len > Len(pack) THEN EventsPanic("slice out of range")
            ELSE TextEventsLoop_nopad(pack, n + 36 + text_len,
                    Append(events,
                           [uuid |-> U128LE(Slice(pack, n, n + 16)),
                            uuid_icon |-> U128LE(Slice(pack, n + 16, n + 32)),
                            text |-> from_utf8_lossy(Slice(pack, n + 36, n + 36 + text_len))]))

\* while n < pack.len() of identifier 0x03
RECURSIVE TextEventsLoop(_, _, _)
TextEventsLoop(pack, n, events) ==
    IF ~(n < Len(pack)) THEN [panic |-> FALSE, why |-> "", events |-> events]
    ELSE IF n + 36 > Len(pack) THEN EventsPanic("slice out of range")
    ELSE LET text_len == U32LE(Slice(pack, n + 32, n + 36))
             r == text_len % 4
         IN IF n + 36 + text_len > Len(pack) THEN EventsPanic("slice out of range")
            ELSE TextEventsLoop(pack,
                    n + 36 + text_len + (IF r = 0 THEN 0 ELSE 4 - r),
                    Append(events,
                           [uuid |-> U128LE(Slice(pack, n, n + 16)),
                            uuid_icon |-> U128LE(Slice(pack, n + 16, n + 32)),
                            text |-> from_utf8_lossy(Slice(pack, n + 36, n + 36 + text_len))]))

\* for _ in 0..entries_len of identifier 0x04; yields the entries and the new n
RECURSIVE DaytimerEntries(_, _, _, _)
DaytimerEntries(pack, n, k, entries) ==
    IF k = 0 THEN [panic |-> FALSE, n |-> n, entries |-> entries]
    ELSE IF n + 24 > Len(pack) THEN [panic |-> TRUE, n |-> n, entries |-> <<>>]
    ELSE DaytimerEntries(pack, n + 24, k - 1,
            Append(entries, [mode |-> I32LE(Slice(pack, n, n + 4)),
                             from |-> I32LE(Slice(pack, n + 4, n + 8)),
                             to |-> I32LE(Slice(pack, n + 8, n + 12)),
                             need_activate |-> I32LE(Slice(pack, n + 12, n + 16)),
                             value |-> F64LE(Slice(pack, n + 16, n + 24))]))

\* while n < pack.len() of identifier 0x04
RECURSIVE DaytimerEventsLoop(_, _, _)
DaytimerEventsLoop(pack, n, events) ==
    IF ~(n < Len(pack)) THEN [panic |-> FALSE, why |-> "", events |-> events]
    ELSE IF n + 28 > Len(pack) THEN EventsPanic("slice out of range")
    ELSE LET entries_len == I32LE(Slice(pack, n + 24, n + 28))
         IN IF entries_len < 0 THEN EventsPanic("try_into usize")
            ELSE LET e == DaytimerEntries(pack, n + 28, entries_len, <<>>)
                 IN IF e.panic THEN EventsPanic("slice out of range")
                    ELSE DaytimerEventsLoop(pack, e.n,
                            Append(events,
                                   [uuid |-> U128LE(Slice(pack, n, n + 16)),
                                    default_val |-> F64LE(Slice(pack, n + 16, n + 24)),
                                    entries |-> e.entries]))

\* for _ in 0..entries_len of identifier 0x07; yields the entries and the new n
RECURSIVE WeatherEntries(_, _, _, _)
WeatherEntries(pack, n, k, entries) ==
    IF k = 0 THEN [panic |-> FALSE, n |-> n, entries |-> entries]
    ELSE IF n + 68 > Len(pack) THEN [panic |-> TRUE, n |-> n, entries |-> <<>>]
    ELSE WeatherEntries(pack, n + 68, k - 1,
            Append(entries,
                   [timestamp |-> I32LE(Slice(pack, n, n + 4)),
                    weather_type |-> I32LE(Slice(pack, n + 4, n + 8)),
                    wind_direction |-> I32LE(Slice(pack, n + 8, n + 12)),
                    solar_radiation |-> I32LE(Slice(pack, n + 12, n + 16)),
                    relative_humidity |-> I32LE(Slice(pack, n + 16, n + 20)),
                    temperature |-> F64LE(Slice(pack, n + 20, n + 28)),
                    perceived_temperature |-> F64LE(Slice(pack, n + 28, n + 36)),
                    dew_point |-> F64LE(Slice(pack, n + 36, n + 44)),
                    precipitation |-> F64LE(Slice(pack, n + 44, n + 52)),
                    wind_speed |-> F64LE(Slice(pack, n + 52, n + 60)),
                    barometic_pressure |-> F64LE(Slice(pack, n + 60, n + 68))]))

\* while n < pack.len() of identifier 0x07
RECURSIVE WeatherEventsLoop(_, _, _)
WeatherEventsLoop(pack, n, events) ==
    IF ~(n < Len(pack)) THEN [panic |-> FALSE, why |-> "", events |-> events]
    ELSE IF n + 24 > Len(pack) THEN EventsPanic("slice out of range")
    ELSE LET entries_len == I32LE(Slice(pack, n + 20, n + 24))
         IN IF entries_len < 0 THEN EventsPanic("try_into usize")
            ELSE LET e == WeatherEntries(pack, n + 24, entries_len, <<>>)
                 IN IF e.panic THEN EventsPanic("slice out of range")
                    ELSE WeatherEventsLoop(pack, e.n,
                            Append(events,
                                   [uuid |-> U128LE(Slice(pack, n, n + 16)),
                                    last_update |-> U32LE(Slice(pack, n + 16, n + 20)),
                                    entries |-> e.entries]))

\* every event table wrapped as ValueEvents
EventTable_value(tbl, r) ==
    IF r.panic THEN BodyPanic(r.why) ELSE BodyOk(Msg("EventTable", "ValueEvents", r.events))

EventTable(tbl, r) == IF r.panic THEN BodyPanic(r.why) ELSE BodyOk(Msg("EventTable", tbl, r.events))


---------------------------------------------------------------------------
\* The frame codec

HeaderPanic(why) == [panic |-> TRUE, why |-> why, msg_type |-> -1, some |-> FALSE, msg_len |-> -1]

\* parse_msg_header: (identifier, Some(length)) when the info byte is 0x00,
\* (identifier, None) otherwise
parse_msg_header(header_msg) ==
    IF header_msg.t # "binary" THEN HeaderPanic("assert is_binary")
    ELSE LET header == header_msg.data
         IN IF Len(header) < 1 THEN HeaderPanic("index out of bounds")
            ELSE IF header[1] # 3 THEN HeaderPanic("assert_eq magic")
            ELSE IF Len(header) < 3 THEN HeaderPanic("index out of bounds")
            ELSE IF header[3] = 0
                 THEN IF Len(header) # 8 THEN HeaderPanic("try_into")
                      ELSE [panic |-> FALSE, why |-> "", msg_type |-> header[2],
                            some |-> TRUE, msg_len |-> U32LE(Slice(header, 4, 8))]
                 ELSE [panic |-> FALSE, why |-> "", msg_type |-> header[2],
                       some |-> FALSE, msg_len |-> -1]

\* parse_msg_len reading the length field big-endian
parse_msg_len_be(header_msg) ==
    LET header == header_msg.data
    IN IF Len(header) # 8 THEN [panic |-> TRUE, why |-> "try_into", msg_len |-> -1]
       ELSE [panic |-> FALSE, why |-> "", msg_len |-> U32LE(Reverse(Slice(header, 4, 8)))]

\* parse_msg_len: the length field of the second header frame
parse_msg_len(header_msg) ==
    LET header == header_msg.data
    IN IF Len(header) # 8 THEN [panic |-> TRUE, why |-> "try_into", msg_len |-> -1]
       ELSE [panic |-> FALSE, why |-> "", msg_len |-> U32LE(Slice(header, 4, 8))]

\* every identifier of the table awaiting a payload frame
NeedsBody_all(msg_type) == msg_type \in {0, 1, 2, 3, 4, 5, 6, 7}

\* the arm of identifier 0x06 awaiting a payload frame as well
NeedsBody_keepalive(msg_type) == msg_type \in {0, 1, 2, 3, 4, 6, 7}

\* The identifiers whose arm of parse_msg_body awaits stream.next()
NeedsBody(msg_type) == msg_type \in {0, 1, 2, 3, 4, 7}

\* parse_msg_body; next is what stream.next() yielded: <<>> for None, <<frame>>
\* for Some(frame).  It is only awaited by the arms in NeedsBody.
parse_msg_body(msg_type, msg_len, next) ==
    IF msg_type = 5 THEN BodyOk(Msg("OutOfServiceIndicator", "", <<>>))
    ELSE IF msg_type = 6 THEN BodyOk(Msg("KeepAlive", "", <<>>))
    ELSE IF ~NeedsBody(msg_type) THEN BodyPanic("unknown message identifier")
    ELSE IF next = <<>> THEN BodyPanic("unwrap on None")
    ELSE LET body_msg == next[1]
             pack == body_msg.data
         IN CASE msg_type = 0 ->
                   IF Len(pack) # msg_len THEN BodyPanic("assert_eq len")
                   ELSE IF body_msg.t # "text" THEN BodyPanic("assert is_text")
                   ELSE BodyOk(Msg("Text", "", pack))
              [] msg_type = 1 ->
                   IF Len(pack) # msg_len THEN BodyPanic("assert_eq len")
                   ELSE IF body_msg.t = "text" THEN BodyOk(Msg("BinaryText", "", pack))
                   ELSE BodyOk(Msg("BinaryFile", "", pack))
              [] msg_type = 2 ->
                   IF Len(pack) # msg_len THEN BodyPanic("assert_eq len")
                   ELSE IF body_msg.t # "binary" THEN BodyPanic("assert is_binary")
                   ELSE EventTable("ValueEvents", ValueEventsLoop(pack, 0, <<>>))
              [] msg_type = 3 ->
                   IF Len(pack) # msg_len THEN BodyPanic("assert_eq len")
                   ELSE IF body_msg.t # "binary" THEN BodyPanic("assert is_binary")
                   ELSE EventTable("TextEvents", TextEventsLoop(pack, 0, <<>>))
              [] msg_type = 4 ->
                   IF body_msg.t # "binary" THEN BodyPanic("assert is_binary")
                   ELSE EventTable("DaytimerEvents", DaytimerEventsLoop(pack, 0, <<>>))
              [] OTHER ->
                   IF body_msg.t # "binary" THEN BodyPanic("assert is_binary")
                   ELSE EventTable("WeatherEvents", WeatherEventsLoop(pack, 0, <<>>))

---------------------------------------------------------------------------
\* Reply texts.  A JSON reply {"LL":{"control":..,"Code":..,"value":..}} is
\* written as four bytes: '{' (a well-formed document), the kind of LL.value
\* ('s' a string, 'n' a string holding a number, 'o' an object), the first
\* digit of LL.Code, and the digit of the request it answers ('0': none).

JsonText(kind, code, serial) == <<123, kind, code, 48 + serial>>

\* serde_json::from_str(&reply) is Ok
json_ok(text) == Len(text) = 4 /\ text[1] = 123
\* reply_json["LL"]["value"].as_str() is Some
value_is_str(text) == text[2] \in {115, 110}
\* reply_json["LL"]["value"].as_object() is Some
value_is_object(text) == text[2] = 111
\* .parse::<u8>() is Ok
value_is_u8(text) == text[2] = 110
\* the request a reply text was written for
Serial(text) == IF Len(text) = 4 THEN text[4] - 48 ELSE -1

---------------------------------------------------------------------------
\* State

VARIABLES
    rx,         \* read half: the stream items the server wrote and recv has not read
    closed,     \* the server closed the transport: the stream ends after rx
    nsent,      \* logical messages the server wrote so far
    answered,   \* commands of tx the server has written a reply for
    tx,         \* write half: the commands sent, in order
    session,    \* self.session: 0 is None, k the Session made by the k-th key_exchange
    pc,         \* where the caller's future stands
    op,         \* the facade call in progress
    stage,      \* 1: the call's first send_recv; 2: get_jwt's send_recv_enc,
                \*    enable_status_update's while let loop
    ncalls,     \* facade calls that have ended
    last,       \* how the latest of them ended
    ndrops,     \* calls whose future the caller dropped
    dropped,    \* the commands whose call was dropped while it awaited the reply
    printed,    \* the variants enable_status_update's loop printed
    consumed,   \* the frames stream.next() yielded to the latest recv
    msg_type,   \* parse_msg_next: the identifier of the latest recv (-1: none yet)
    msg_len,    \* parse_msg_next: the resolved length of the latest recv (-1: none yet)
    returned,   \* the message the latest recv returned (NoMsg: none yet)
    swallowed,  \* recv's filter_map dropped a transport error item
    regular     \* so far the server wrote only replies to commands, event tables
                \* and keep-alives, no call was dropped, and get_jwt had a session

vars == <<rx, closed, nsent, answered, tx, session, pc, op, stage, ncalls, last, ndrops, dropped,
          printed,
          consumed, msg_type, msg_len, returned, swallowed, regular>>

envVars == <<closed, nsent, answered>>
recvVars == <<consumed, msg_type, msg_len, returned>>

Ops == {"key_exchange", "get_jwt", "get_loxapp3_json", "get_loxapp3_timestamp",
        "enable_status_update"}

Reading == {"hdr", "len", "body"}

\* The command text a call writes (the format! of each facade method); key is
\* the session whose key bundle or AES key builds it.
Command(o, st, key) ==
    CASE o = "key_exchange" -> [cmd |-> "jdev/sys/keyexchange", key |-> key]
      [] o = "get_jwt" /\ st = 1 -> [cmd |-> "jdev/sys/getkey2", key |-> 0]
      [] o = "get_jwt" /\ st = 2 -> [cmd |-> "jdev/sys/enc", key |-> key]
      [] o = "get_loxapp3_json" -> [cmd |-> "data/LoxAPP3.json", key |-> 0]
      [] o = "get_loxapp3_timestamp" -> [cmd |-> "jdev/sps/LoxAPPversion3", key |-> 0]
      [] OTHER -> [cmd |-> "jdev/sps/enablebinstatusupdate", key |-> 0]

\* How a call ended: its method, the command it last wrote (its place in tx),
\* Ok ("ok"), Err ("err"), a panic or the drop of its future, and the message
\* its last recv returned.
Result(o, req, outcome, why, m) ==
    [op |-> o, req |-> req, outcome |-> outcome, why |-> why, msg |-> m]
NoResult == Result("none", 0, "", "", NoMsg)
callVars == <<ncalls, last>>
dropVars == <<ndrops, dropped>>

Init ==
    /\ rx = <<>>
    /\ closed = FALSE
    /\ nsent = 0
    /\ answered = 0
    /\ tx = <<>>
    /\ session = 0
    /\ pc = "idle"
    /\ op = "none"
    /\ stage = 0
    /\ ncalls = 0
    /\ last = NoResult
    /\ ndrops = 0
    /\ dropped = {}
    /\ printed = <<>>
    /\ consumed = <<>>
    /\ msg_type = -1
    /\ msg_len = -1
    /\ returned = NoMsg
    /\ swallowed = FALSE
    /\ regular = TRUE

---------------------------------------------------------------------------
\* The facade: how a call goes on from what its recv did

\* A panic: nothing catches it, the process is gone.
Abort(why, m) ==
    /\ pc' = "panicked"
    /\ ncalls' = ncalls + 1
    /\ last' = Result(op, Len(tx), "panic", why, m)
    /\ UNCHANGED <<tx, session, op, stage, printed>>

\* The call returns to its caller.
Return(outcome, why, m) ==
    /\ pc' = "idle"
    /\ op' = "none"
    /\ stage' = 0
    /\ ncalls' = ncalls + 1
    /\ last' = Result(op, Len(tx), outcome, why, m)
    /\ UNCHANGED <<tx, session, printed>>

\* The match of each facade method on Ok(m) of its send_recv, and the body of
\* enable_status_update's while let Ok(msg) loop.
Received(m) ==
    CASE op = "enable_status_update" /\ stage = 2 ->
            /\ printed' = Append(printed, m.v)
            /\ pc' = "hdr"
            /\ UNCHANGED <<tx, session, op, stage, callVars>>
      [] op = "enable_status_update" /\ stage = 1 ->
            IF m.v # "Text" THEN Abort("invalid reply type", m)
            ELSE IF ~json_ok(m.data) THEN Abort("from_str unwrap", m)
            ELSE IF ~value_is_str(m.data) THEN Abort("as_str unwrap", m)
            ELSE IF ~value_is_u8(m.data) THEN Abort("parse unwrap", m)
            ELSE /\ pc' = "hdr"
                 /\ stage' = 2
                 /\ UNCHANGED <<tx, session, op, callVars, printed>>
      [] op = "get_jwt" /\ stage = 1 ->
            IF m.v # "Text" THEN Abort("invalid reply type", m)
            ELSE IF ~json_ok(m.data) THEN Abort("from_str unwrap", m)
            ELSE IF ~value_is_object(m.data) THEN Abort("as_object unwrap", m)
            ELSE /\ pc' = "send_enc"
                 /\ stage' = 2
                 /\ UNCHANGED <<tx, session, op, callVars, printed>>
      [] op = "get_jwt" /\ stage = 2 ->
            IF m.v # "Text" THEN Abort("invalid reply type", m)
            ELSE IF ~json_ok(m.data) THEN Abort("from_str unwrap", m)
            ELSE IF ~value_is_object(m.data) THEN Abort("as_object unwrap", m)
            ELSE Return("ok", "", m)
      [] op = "get_loxapp3_json" ->
            IF m.v # "BinaryText" THEN Abort("invalid reply type", m)
            ELSE IF ~json_ok(m.data) THEN Abort("from_str unwrap", m)
            ELSE Return("ok", "", m)
      [] OTHER ->
            IF m.v # "Text" THEN Abort("invalid reply type", m)
            ELSE IF ~json_ok(m.data) THEN Abort("from_str unwrap", m)
            ELSE IF ~value_is_str(m.data) THEN Abort("as_str unwrap", m)
            ELSE Return("ok", "", m)

\* parse_msg_next once the length is resolved: parse_msg_body is entered, and
\* only the arms of NeedsBody await a further frame.
Resolved(mt, ml) ==
    IF NeedsBody(mt)
    THEN /\ pc' = "body"
         /\ returned' = NoMsg
         /\ UNCHANGED <<tx, session, op, stage, callVars, printed>>
    ELSE LET r == parse_msg_body(mt, ml, <<>>)
         IN IF r.panic THEN returned' = NoMsg /\ Abort(r.why, NoMsg)
            ELSE returned' = r.msg /\ Received(r.msg)

---------------------------------------------------------------------------
\* The facade's operations

\* A public method is called: key_exchange first replaces self.session, then
\* send_recv writes the command (tx.send) and enters recv.
Call(o) ==
    /\ pc = "idle"
    /\ ncalls < MaxCalls
    /\ session' = IF o = "key_exchange" THEN session + 1 ELSE session
    /\ tx' = Append(tx, Command(o, 1, session'))
    /\ op' = o
    /\ stage' = 1
    /\ pc' = "hdr"
    /\ regular' = (regular /\ ~(o = "get_jwt" /\ session = 0))
    /\ UNCHANGED <<rx, envVars, callVars, printed, recvVars, swallowed, dropVars>>

\* tx.send fails on a transport the server closed: the ? of send_recv hands
\* the error to the caller.
CallSendFails(o) ==
    /\ pc = "idle"
    /\ ncalls < MaxCalls
    /\ closed
    /\ session' = IF o = "key_exchange" THEN session + 1 ELSE session
    /\ ncalls' = ncalls + 1
    /\ last' = Result(o, 0, "err", "send", NoMsg)
    /\ UNCHANGED <<rx, envVars, tx, pc, op, stage, printed, recvVars, swallowed, dropVars, regular>>

\* send_recv_enc sending whether or not there is a session
SendEnc_nosession ==
    /\ pc = "send_enc"
    /\ tx' = Append(tx, Command(op, 2, session))
    /\ pc' = "hdr"
    /\ UNCHANGED <<session, op, stage, callVars, printed>>
    /\ UNCHANGED <<rx, envVars, recvVars, swallowed, dropVars, regular>>

\* get_jwt after get_key: send_recv_enc unwraps self.session, encrypts and sends.
SendEnc ==
    /\ pc = "send_enc"
    /\ IF session = 0
       THEN Abort("session unwrap on None", NoMsg)
       ELSE /\ tx' = Append(tx, Command(op, 2, session))
            /\ pc' = "hdr"
            /\ UNCHANGED <<session, op, stage, callVars, printed>>
    /\ UNCHANGED <<rx, envVars, recvVars, swallowed, dropVars, regular>>

SendEncFails ==
    /\ pc = "send_enc"
    /\ session # 0
    /\ closed
    /\ Return("err", "send", NoMsg)
    /\ UNCHANGED <<rx, envVars, recvVars, swallowed, dropVars, regular>>

\* recv's filter_map(|item| item.ok()): an Err item of the stream is dropped.
SkipErr ==
    /\ pc \in Reading
    /\ rx # <<>>
    /\ Head(rx).t = "err"
    /\ rx' = Tail(rx)
    /\ swallowed' = TRUE
    /\ UNCHANGED <<envVars, tx, session, pc, op, stage, callVars, printed, recvVars, regular,
                   dropVars>>

\* parse_msg_next: stream.next() yields the first frame, parse_msg_header.
ReadHeader ==
    /\ pc = "hdr"
    /\ rx # <<>>
    /\ Head(rx).t # "err"
    /\ rx' = Tail(rx)
    /\ consumed' = <<Head(rx)>>
    /\ LET h == parse_msg_header(Head(rx))
       IN IF h.panic
          THEN /\ msg_type' = -1 /\ msg_len' = -1 /\ returned' = NoMsg
               /\ Abort(h.why, NoMsg)
          ELSE IF h.some
          THEN /\ msg_type' = h.msg_type /\ msg_len' = h.msg_len
               /\ Resolved(h.msg_type, h.msg_len)
          ELSE /\ msg_type' = h.msg_type /\ msg_len' = -1 /\ returned' = NoMsg
               /\ pc' = "len"
               /\ UNCHANGED <<tx, session, op, stage, callVars, printed>>
    /\ UNCHANGED <<envVars, swallowed, dropVars, regular>>

\* parse_msg_next: stream.next() yields the second header frame, parse_msg_len.
ReadLen ==
    /\ pc = "len"
    /\ rx # <<>>
    /\ Head(rx).t # "err"
    /\ rx' = Tail(rx)
    /\ consumed' = Append(consumed, Head(rx))
    /\ LET l == parse_msg_len(Head(rx))
       IN IF l.panic
          THEN /\ msg_len' = -1 /\ returned' = NoMsg
               /\ Abort(l.why, NoMsg)
          ELSE /\ msg_len' = l.msg_len
               /\ Resolved(msg_type, l.msg_len)
    /\ UNCHANGED <<envVars, msg_type, swallowed, dropVars, regular>>

\* parse_msg_body: stream.next() yields the payload frame.
ReadBody ==
    /\ pc = "body"
    /\ rx # <<>>
    /\ Head(rx).t # "err"
    /\ rx' = Tail(rx)
    /\ consumed' = Append(consumed, Head(rx))
    /\ LET r == parse_msg_body(msg_type, msg_len, <<Head(rx)>>)
       IN IF r.panic THEN returned' = NoMsg /\ Abort(r.why, NoMsg)
          ELSE returned' = r.msg /\ Received(r.msg)
    /\ UNCHANGED <<envVars, msg_type, msg_len, swallowed, dropVars, regular>>

\* stream.next() yields None, the stream has ended: .unwrap() panics.
StreamEnd ==
    /\ pc \in Reading
    /\ rx = <<>>
    /\ closed
    /\ Abort("unwrap on None", NoMsg)
    /\ UNCHANGED <<rx, envVars, recvVars, swallowed, dropVars, regular>>

\* The caller drops the future of a call at one of its awaits.
Cancel ==
    /\ pc \in Reading \cup {"send_enc"}
    /\ ndrops < MaxDrops
    /\ ndrops' = ndrops + 1
    /\ Return("cancelled", "", NoMsg)
    /\ dropped' = IF pc \in Reading /\ ~(op = "enable_status_update" /\ stage = 2)
                  THEN dropped \cup {Len(tx)} ELSE dropped
    /\ regular' = FALSE
    /\ UNCHANGED <<rx, envVars, recvVars, swallowed>>

---------------------------------------------------------------------------
\* The Miniserver (the environment)

\* The reply the Miniserver writes for a command: the identifier of its
\* header and the kind of its LL.value.
ReplyId(cmd) == IF cmd = "data/LoxAPP3.json" THEN 1 ELSE 0
ReplyKind(cmd) ==
    CASE cmd \in {"jdev/sys/getkey2", "jdev/sys/enc", "data/LoxAPP3.json"} -> 111
      [] cmd = "jdev/sps/enablebinstatusupdate" -> 110
      [] OTHER -> 115

\* The reply to the i-th command: one header (form "A"), or an estimated
\* header followed by the header with the real length (form "B").
ReplyMsg(form, i) ==
    LET text == JsonText(ReplyKind(tx[i].cmd), 50, i)
        id == ReplyId(tx[i].cmd)
    IN IF form = "A"
       THEN <<Bin(<<3, id, 0, 0, 4, 0, 0, 0>>), Txt(text)>>
       ELSE <<Bin(<<3, id, 1, 0, 9, 0, 0, 0>>), Bin(<<3, id, 0, 0, 4, 0, 0, 0>>), Txt(text)>>

ValueRecord == <<1, 0, 0, 0, 0, 0, 0, 0, 0, 0, 0, 0, 0, 0, 0, 0, 0, 0, 0, 0, 0, 0, 240, 63>>
Hello == <<72, 101, 108, 108, 111>>

KeepAliveMsg == <<Bin(<<3, 6, 0, 0, 0, 0, 0, 0>>)>>
OutOfServiceMsg == <<Bin(<<3, 5, 0, 0, 0, 0, 0, 0>>)>>
ValueEventsMsg == <<Bin(<<3, 2, 0, 0, 24, 0, 0, 0>>), Bin(ValueRecord)>>
\* a Text nobody asked for
UnsolicitedText == <<Bin(<<3, 0, 0, 0, 4, 0, 0, 0>>), Txt(JsonText(115, 50, 0))>>
\* a BinaryFile with an estimated first header
BinaryFileMsg == <<Bin(<<3, 1, 1, 0, 0, 0, 0, 0>>), Bin(<<3, 1, 0, 0, 5, 0, 0, 0>>), Bin(Hello)>>
\* first header with a wrong magic byte
BadMagicFirst == <<Bin(<<2, 0, 0, 0, 4, 0, 0, 0>>), Txt(JsonText(115, 50, 0))>>
\* second header with a wrong magic byte
BadMagicSecond == <<Bin(<<3, 1, 1, 0, 0, 0, 0, 0>>), Bin(<<255, 1, 0, 0, 5, 0, 0, 0>>), Bin(Hello)>>
\* payload frames whose length is not the header's
TextLenMismatch == <<Bin(<<3, 0, 0, 0, 5, 0, 0, 0>>), Txt(JsonText(115, 50, 0))>>
ValueLenMismatch == <<Bin(<<3, 2, 0, 0, 25, 0, 0, 0>>), Bin(ValueRecord)>>
DaytimerLenMismatch == <<Bin(<<3, 4, 0, 0, 5, 0, 0, 0>>), Bin(<<>>)>>
WeatherLenMismatch == <<Bin(<<3, 7, 0, 0, 5, 0, 0, 0>>), Bin(<<>>)>>
\* lengths of more than one byte, which no payload of the model has
BinaryLenMismatch == <<Bin(<<3, 1, 1, 0, 0, 0, 0, 0>>), Bin(<<3, 1, 0, 0, 2, 1, 0, 0>>), Bin(Hello)>>
TextEventsLenMismatch == <<Bin(<<3, 3, 0, 0, 2, 1, 0, 0>>), Bin(<<>>)>>
\* a ValueEvents payload that ends inside a record
ValueTruncated == <<Bin(<<3, 2, 0, 0, 3, 0, 0, 0>>), Bin(<<1, 2, 3>>)>>
UnknownIdentifier == <<Bin(<<3, 8, 0, 0, 0, 0, 0, 0>>)>>
\* a TextEvents payload that ends inside the padding of its record: two
\* uuids, text length 1, one text byte and none of the three padding bytes
Uuid16 == <<7, 0, 0, 0, 0, 0, 0, 0, 0, 0, 0, 0, 0, 0, 0, 9>>
TextPaddingTruncated ==
    <<Bin(<<3, 3, 0, 0, 37, 0, 0, 0>>), Bin(Uuid16 \o Uuid16 \o <<1, 0, 0, 0>> \o <<65>>)>>
\* identifier 0x01 with a text payload frame
BinaryTextMsg == <<Bin(<<3, 1, 0, 0, 5, 0, 0, 0>>), Txt(Hello)>>
\* identifier 0x00 with a binary payload frame, 0x02 with a text payload frame
TextOnBinaryFrame == <<Bin(<<3, 0, 0, 0, 5, 0, 0, 0>>), Bin(Hello)>>
ValueOnTextFrame == <<Bin(<<3, 2, 0, 0, 5, 0, 0, 0>>), Txt(Hello)>>

\* What a well-behaved Miniserver writes unasked, what any Miniserver may
\* write unasked, and the malformed or unusual messages the codec is tried on.
RegularMenu == {KeepAliveMsg, ValueEventsMsg}
PushMenu == RegularMenu \cup {OutOfServiceMsg}
CodecMenu == PushMenu \cup
             {UnsolicitedText, BinaryFileMsg, BadMagicFirst, BadMagicSecond, TextLenMismatch, ValueLenMismatch,
              DaytimerLenMismatch, WeatherLenMismatch, BinaryLenMismatch,
              TextEventsLenMismatch, ValueTruncated, UnknownIdentifier,
              BinaryTextMsg, TextOnBinaryFrame, ValueOnTextFrame, TextPaddingTruncated}

\* What the server had written of a message when the transport closed.
\* Nothing (the close comes before a header), a header whose payload never
\* comes, a first header whose second header never comes.
CloseMenu == {<<>>, <<Bin(<<3, 0, 0, 0, 4, 0, 0, 0>>)>>, <<Bin(<<3, 1, 1, 0, 0, 0, 0, 0>>)>>}

ServerUp == ~closed /\ pc # "panicked" /\ nsent < MaxMsgs

\* The server answers the oldest command it has not answered yet.
ServerReply(form) ==
    /\ ServerUp
    /\ answered < Len(tx)
    /\ rx' = rx \o ReplyMsg(form, answered + 1)
    /\ answered' = answered + 1
    /\ nsent' = nsent + 1
    /\ UNCHANGED <<closed, tx, session, pc, op, stage, callVars, printed, recvVars,
                   swallowed, dropVars, regular>>

\* The reply to the i-th command when the Miniserver refuses it: LL.Code is
\* not "200" (its first digit is '4') and LL.value is a string.
ErrorReplyMsg(i) ==
    <<Bin(<<3, ReplyId(tx[i].cmd), 0, 0, 4, 0, 0, 0>>), Txt(JsonText(115, 52, i))>>

\* The server refuses the oldest command it has not answered yet.
ServerErrorReply ==
    /\ ServerUp
    /\ answered < Len(tx)
    /\ rx' = rx \o ErrorReplyMsg(answered + 1)
    /\ answered' = answered + 1
    /\ nsent' = nsent + 1
    /\ regular' = FALSE
    /\ UNCHANGED <<closed, tx, session, pc, op, stage, callVars, printed, recvVars,
                   swallowed, dropVars>>

\* The server writes a message no command asked for.
ServerPush(m) ==
    /\ ServerUp
    /\ rx' = rx \o m
    /\ nsent' = nsent + 1
    /\ regular' = (regular /\ m \in RegularMenu)
    /\ UNCHANGED <<closed, answered, tx, session, pc, op, stage, callVars, printed,
                   recvVars, swallowed, dropVars>>

\* A Text arrives while no request is pending.
ServerStray ==
    /\ ServerUp
    /\ pc = "idle"
    /\ rx' = rx \o UnsolicitedText
    /\ nsent' = nsent + 1
    /\ regular' = FALSE
    /\ UNCHANGED <<closed, answered, tx, session, pc, op, stage, callVars, printed,
                   recvVars, swallowed, dropVars>>

\* Reading the transport fails: the stream yields an Err item.
TransportError ==
    /\ ServerUp
    /\ rx' = Append(rx, ErrItem)
    /\ nsent' = nsent + 1
    /\ regular' = FALSE
    /\ UNCHANGED <<closed, answered, tx, session, pc, op, stage, callVars, printed,
                   recvVars, swallowed, dropVars>>

\* The transport closes, possibly in the middle of a logical message.
ServerClose(part) ==
    /\ ~closed
    /\ pc # "panicked"
    /\ rx' = rx \o part
    /\ closed' = TRUE
    /\ regular' = FALSE
    /\ UNCHANGED <<nsent, answered, tx, session, pc, op, stage, callVars, printed,
                   recvVars, swallowed, dropVars>>

---------------------------------------------------------------------------
\* Event tables as the Miniserver packs them: the records the decoders of
\* parse_msg_body are written for, built field by field.

\* u32 and i32 to_le_bytes
U32Bytes(v) == <<v % 256, (v \div 256) % 256, (v \div 65536) % 256, v \div 16777216>>
I32Bytes(v) ==
    IF v >= 0 THEN U32Bytes(v)
    ELSE LET w == (v + 2147483647) + 1
         IN <<w % 256, (w \div 256) % 256, (w \div 65536) % 256, (w \div 16777216) + 128>>
\* u128 and f64 to_le_bytes of a value held most significant byte first
LEBytes(v) == Reverse(v)
Zeros(k) == [i \in 1..k |-> 0]

UuidA == <<0, 0, 0, 0, 0, 0, 0, 0, 0, 0, 0, 0, 0, 0, 0, 1>>
UuidB == <<171, 205, 0, 0, 0, 0, 0, 0, 0, 0, 0, 0, 0, 0, 1, 2>>
F64One == <<63, 240, 0, 0, 0, 0, 0, 0>>
F64MinusTwo == <<192, 0, 0, 0, 0, 0, 0, 0>>

DaytimerEntryA == [mode |-> -1, from |-> 0, to |-> 1440, need_activate |-> 1, value |-> F64One]
DaytimerEntryB == [mode |-> 3, from |-> 70000, to |-> -2147483647, need_activate |-> 0,
                   value |-> F64MinusTwo]
WeatherEntryA ==
    [timestamp |-> 1000000, weather_type |-> 7, wind_direction |-> -90,
     solar_radiation |-> 0, relative_humidity |-> 55, temperature |-> F64MinusTwo,
     perceived_temperature |-> F64One, dew_point |-> F64One, precipitation |-> F64MinusTwo,
     wind_speed |-> F64One, barometic_pressure |-> F64One]

\* The records of each event variant the decoders are tried on.
Records(tbl) ==
    CASE tbl = "ValueEvents" ->
            {[uuid |-> UuidA, val |-> F64One], [uuid |-> UuidB, val |-> F64One],
             [uuid |-> UuidA, val |-> F64MinusTwo]}
      [] tbl = "TextEvents" ->
            {[uuid |-> UuidA, uuid_icon |-> UuidB, text |-> SubSeq(Hello, 1, L)] :
                L \in 0..Len(Hello)}
      [] tbl = "DaytimerEvents" ->
            {[uuid |-> UuidB, default_val |-> F64One, entries |-> e] :
                e \in {<<>>, <<DaytimerEntryA>>, <<DaytimerEntryB, DaytimerEntryA>>}}
      [] OTHER ->
            {[uuid |-> UuidB, last_update |-> 258, entries |-> e] :
                e \in {<<>>, <<WeatherEntryA>>}}

RECURSIVE Concat(_)
Concat(ss) == IF ss = <<>> THEN <<>> ELSE Head(ss) \o Concat(Tail(ss))

EncodeDaytimerEntry(e) ==
    I32Bytes(e.mode) \o I32Bytes(e.from) \o I32Bytes(e.to) \o I32Bytes(e.need_activate)
    \o LEBytes(e.value)

EncodeWeatherEntry(e) ==
    I32Bytes(e.timestamp) \o I32Bytes(e.weather_type) \o I32Bytes(e.wind_direction)
    \o I32Bytes(e.solar_radiation) \o I32Bytes(e.relative_humidity)
    \o LEBytes(e.temperature) \o LEBytes(e.perceived_temperature) \o LEBytes(e.dew_point)
    \o LEBytes(e.precipitation) \o LEBytes(e.wind_speed) \o LEBytes(e.barometic_pressure)

\* One record on the wire.
EncodeRecord(tbl, r) ==
    CASE tbl = "ValueEvents" -> LEBytes(r.uuid) \o LEBytes(r.val)
      [] tbl = "TextEvents" ->
            LEBytes(r.uuid) \o LEBytes(r.uuid_icon) \o U32Bytes(Len(r.text)) \o r.text
            \o Zeros((4 - (Len(r.text) % 4)) % 4)
      [] tbl = "DaytimerEvents" ->
            LEBytes(r.uuid) \o LEBytes(r.default_val) \o I32Bytes(Len(r.entries))
            \o Concat([i \in 1..Len(r.entries) |-> EncodeDaytimerEntry(r.entries[i])])
      [] OTHER ->
            LEBytes(r.uuid) \o U32Bytes(r.last_update) \o I32Bytes(Len(r.entries))
            \o Concat([i \in 1..Len(r.entries) |-> EncodeWeatherEntry(r.entries[i])])

\* The payload of an event table: its records one after the other.
EncodeTable(tbl, recs) == Concat([i \in 1..Len(recs) |-> EncodeRecord(tbl, recs[i])])

TableId(tbl) ==
    CASE tbl = "ValueEvents" -> 2 [] tbl = "TextEvents" -> 3
      [] tbl = "DaytimerEvents" -> 4 [] OTHER -> 7

Tables == {"ValueEvents", "TextEvents", "DaytimerEvents", "WeatherEvents"}

\* The sequences of at most k elements of S
SeqsUpTo(S, k) == UNION {[1..n -> S] : n \in 0..k}

\* The event-table message of the records recs.
TableMsg(tbl, recs) ==
    LET pack == EncodeTable(tbl, recs)
    IN <<Bin(<<3, TableId(tbl), 0, 0>> \o U32Bytes(Len(pack))), Bin(pack)>>

\* The status loop of enable_status_update after the reply to its command,
\* with one event table of up to MaxRecords records on the read half.
DecoderInit ==
    /\ \E tbl \in Tables : \E recs \in SeqsUpTo(Records(tbl), MaxRecords) :
          rx = TableMsg(tbl, recs)
    /\ closed = FALSE
    /\ nsent = 2
    /\ answered = 1
    /\ tx = <<Command("enable_status_update", 1, 0)>>
    /\ session = 0
    /\ pc = "hdr"
    /\ op = "enable_status_update"
    /\ stage = 2
    /\ ncalls = 0
    /\ last = NoResult
    /\ ndrops = 0
    /\ dropped = {}
    /\ printed = <<>>
    /\ consumed = <<Bin(<<3, 0, 0, 0, 4, 0, 0, 0>>), Txt(JsonText(110, 50, 1))>>
    /\ msg_type = 0
    /\ msg_len = 4
    /\ returned = Msg("Text", "", JsonText(110, 50, 1))
    /\ swallowed = FALSE
    /\ regular = TRUE

DecoderNext ==
    \/ ReadHeader
    \/ ReadBody

DecoderSpec == DecoderInit /\ [][DecoderNext]_vars

---------------------------------------------------------------------------

\* The client's own steps.
Client ==
    \/ SendEnc
    \/ SendEncFails
    \/ SkipErr
    \/ ReadHeader
    \/ ReadLen
    \/ ReadBody
    \/ StreamEnd

Next ==
    \/ \E o \in Ops : Call(o)
    \/ \E o \in Ops : CallSendFails(o)
    \/ Client
    \/ Cancel
    \/ \E form \in {"A", "B"} : ServerReply(form)
    \/ ServerErrorReply
    \/ \E m \in PushMenu : ServerPush(m)
    \/ ServerStray
    \/ TransportError
    \/ ServerClose(<<>>)

Spec == Init /\ [][Next]_vars

\* The codec on any stream: enable_status_update reads message after message,
\* and the server also writes malformed ones.
CodecNext ==
    \/ Call("enable_status_update")
    \/ SkipErr
    \/ ReadHeader
    \/ ReadLen
    \/ ReadBody
    \/ StreamEnd
    \/ \E form \in {"A", "B"} : ServerReply(form)
    \/ \E m \in CodecMenu : ServerPush(m)
    \/ TransportError
    \/ \E part \in CloseMenu : ServerClose(part)

CodecSpec == Init /\ [][CodecNext]_vars

\* The same with the executor polling the caller's future: a step of the
\* client that stays possible is taken.  Nothing is assumed of the server.
LiveSpec == CodecSpec /\ WF_vars(Client)

---------------------------------------------------------------------------
\* Properties

\* The latest call ended by handing a message to its caller, or by panicking
\* on the message its recv returned.
LastGotMessage == last.outcome \in {"ok", "panic"} /\ last.msg # NoMsg

\* C1: for any interleaving of the replies with event-table and keep-alive
\* frames, every request completes with its own reply: as long as the server
\* wrote only replies, event tables and keep-alives (and no call was dropped),
\* every call that ended returned Ok with the reply written for its command.
C1_RepliesInOrder ==
    (regular /\ ncalls > 0) =>
        /\ last.outcome = "ok"
        /\ last.msg.v \in {"Text", "BinaryText"}
        /\ Serial(last.msg.data) = last.req

\* C2: the reply to a request whose call was dropped is never delivered to a
\* call made afterwards.
C2_DroppedReplyDiscarded ==
    (LastGotMessage /\ last.msg.v \in {"Text", "BinaryText"}) =>
        Serial(last.msg.data) \notin dropped

\* C3: a Text that arrived while no request was pending (ServerStray, the
\* text with serial 0) is never the message a later request receives.
C3_StrayNotDelivered ==
    LastGotMessage => ~(last.msg.v = "Text" /\ Serial(last.msg.data) = 0)

\* C4: a KeepAlive is discarded in every state: it is handed neither to a
\* request nor to the consumer of the events.
C4_KeepAliveDiscarded ==
    /\ last.msg.v # "KeepAlive"
    /\ \A i \in 1..Len(printed) : printed[i] # "KeepAlive"

\* C5: once an OutOfService message has been received the reader reads no
\* more: no recv is in progress.
C5_OutOfServiceStopsReader ==
    (\/ last.msg.v = "OutOfServiceIndicator"
     \/ \E i \in 1..Len(printed) : printed[i] = "OutOfServiceIndicator")
        => pc \notin Reading

\* C6: a request that meets the end of the stream (before a header, between
\* two headers, before a payload) completes with an error handed to its
\* caller: the client does not abort.
C6_CloseCompletesRequests ==
    (closed /\ rx = <<>> /\ ncalls > 0 /\ last.why = "unwrap on None") =>
        (last.outcome = "err" /\ pc # "panicked")

\* C7: a transport read error is surfaced: once the stream yielded an Err item
\* to a recv, no recv goes on reading and the call ended with an error.
C7_TransportErrorSurfaced ==
    swallowed => (pc \notin Reading /\ last.outcome = "err")

\* The header frames of the latest recv, once its length is resolved.
HeaderCount == IF consumed[1].data[3] = 0 THEN 1 ELSE 2
LengthField(frame) ==
    frame.data[5] + 256 * frame.data[6] + 65536 * frame.data[7] + 16777216 * frame.data[8]

\* C8: no logical message is produced from a header frame, first or second,
\* whose byte 0 is not 0x03.
C8_EveryHeaderMagicChecked ==
    returned # NoMsg => \A i \in 1..HeaderCount : consumed[i].data[1] = 3

\* C9: the resolved length is the little-endian u32 of bytes 4..8 of the first
\* header when its info byte is 0x00; otherwise exactly one more header frame
\* is consumed and the length is that frame's bytes 4..8, the first header's
\* length being ignored; the identifier is the first header's byte 1.  (When
\* parse_msg_body awaits the payload exactly the header frames are consumed,
\* and a message that was returned took them and its payload frame, if any.)
C9_LengthResolution ==
    msg_len # -1 =>
        /\ msg_type = consumed[1].data[2]
        /\ msg_len = LengthField(consumed[HeaderCount])
        /\ pc = "body" => Len(consumed) = HeaderCount
        /\ returned # NoMsg =>
              Len(consumed) = HeaderCount + (IF NeedsBody(msg_type) THEN 1 ELSE 0)

\* C9's case: a message with an estimated first header was read to its end,
\* and the two headers disagree about the length.
C9_Witness ==
    /\ returned # NoMsg
    /\ msg_len # -1
    /\ HeaderCount = 2
    /\ LengthField(consumed[1]) # LengthField(consumed[2])

\* C10: a payload frame whose byte length is not the resolved length is never
\* decoded into a logical message.
C10_PayloadLengthChecked ==
    (returned # NoMsg /\ NeedsBody(msg_type)) =>
        Len(consumed[Len(consumed)].data) = msg_len

\* The identifier table: the variant for a header identifier and the kind of
\* the payload frame ("" when no payload frame was read); NoVariant when the
\* table has no row for them.
NoVariant == [v |-> "none", tbl |-> ""]
TableVariant(id, kind) ==
    CASE id = 0 /\ kind = "text" -> [v |-> "Text", tbl |-> ""]
      [] id = 1 /\ kind = "text" -> [v |-> "BinaryText", tbl |-> ""]
      [] id = 1 /\ kind = "binary" -> [v |-> "BinaryFile", tbl |-> ""]
      [] id = 2 /\ kind = "binary" -> [v |-> "EventTable", tbl |-> "ValueEvents"]
      [] id = 3 /\ kind = "binary" -> [v |-> "EventTable", tbl |-> "TextEvents"]
      [] id = 4 /\ kind = "binary" -> [v |-> "EventTable", tbl |-> "DaytimerEvents"]
      [] id = 7 /\ kind = "binary" -> [v |-> "EventTable", tbl |-> "WeatherEvents"]
      [] id = 5 /\ kind = "" -> [v |-> "OutOfServiceIndicator", tbl |-> ""]
      [] id = 6 /\ kind = "" -> [v |-> "KeepAlive", tbl |-> ""]
      [] OTHER -> NoVariant

\* The kind of the payload frame the latest recv read ("" when it read none).
PayloadKind == IF Len(consumed) > HeaderCount THEN consumed[Len(consumed)].t ELSE ""

\* C11: the variant of every logical message a recv returns is the one the
\* identifier table gives for the first header's identifier and the kind of
\* the payload frame; identifiers and frame kinds without a row yield none.
C11_VariantTable ==
    returned # NoMsg =>
        /\ TableVariant(consumed[1].data[2], PayloadKind) # NoVariant
        /\ [v |-> returned.v, tbl |-> returned.tbl] = TableVariant(consumed[1].data[2], PayloadKind)

\* C11's case: an identifier whose variant depends on the payload frame kind
\* (0x01 with a binary frame) and an event table other than the first.
C11_Witness ==
    /\ returned.v = "EventTable"
    /\ returned.tbl = "WeatherEvents"
    /\ consumed[1].data[2] = 7

\* C12: an OutOfService or KeepAlive message takes no payload frame: when recv
\* returns one it has consumed the header frames only, a recv that goes on
\* stands before a header, and the frame read next is taken as the first
\* header of the next logical message.
C12_NoPayloadFrame ==
    /\ [](returned.v \in {"OutOfServiceIndicator", "KeepAlive"} =>
            /\ Len(consumed) = HeaderCount
            /\ pc \in Reading => pc = "hdr")
    /\ [][(/\ returned.v \in {"OutOfServiceIndicator", "KeepAlive"}
           /\ rx # <<>>
           /\ Head(rx).t # "err"
           /\ rx' = Tail(rx))
          => (/\ consumed' = <<Head(rx)>>
              /\ pc' # "panicked" => msg_type' = Head(rx).data[2])]_vars

\* C12's case: the status loop got a KeepAlive, stands before the next header
\* and the next frame is there.
C12_Witness ==
    /\ returned.v = "KeepAlive"
    /\ Len(consumed) = 1
    /\ op = "enable_status_update" /\ stage = 2
    /\ pc = "hdr"

\* The bytes of the record of an event table that starts at pack[n], by the
\* record layouts (-1 when the fixed part of the record is not all there or
\* its count is negative).
RecordSize(tbl, pack, n) ==
    CASE tbl = "ValueEvents" -> 24
      [] tbl = "TextEvents" ->
            IF n + 36 > Len(pack) THEN -1
            ELSE LET L == U32LE(Slice(pack, n + 32, n + 36))
                 IN 36 + L + ((4 - (L % 4)) % 4)
      [] tbl = "DaytimerEvents" ->
            IF n + 28 > Len(pack) THEN -1
            ELSE LET k == I32LE(Slice(pack, n + 24, n + 28))
                 IN IF k < 0 THEN -1 ELSE 28 + 24 * k
      [] OTHER ->
            IF n + 24 > Len(pack) THEN -1
            ELSE LET k == I32LE(Slice(pack, n + 20, n + 24))
                 IN IF k < 0 THEN -1 ELSE 24 + 68 * k

\* pack[n..] is a concatenation of whole records: it does not end in the
\* middle of one.
RECURSIVE WholeRecords(_, _, _)
WholeRecords(tbl, pack, n) ==
    IF n = Len(pack) THEN TRUE
    ELSE LET size == RecordSize(tbl, pack, n)
         IN IF size < 0 \/ n + size > Len(pack) THEN FALSE
            ELSE WholeRecords(tbl, pack, n + size)

\* C13: a payload that ends in the middle of a record is never decoded into
\* an event table: every event table a recv returns was decoded from a
\* payload made of whole records.
C13_TruncatedRejected ==
    returned.v = "EventTable" =>
        WholeRecords(returned.tbl, consumed[Len(consumed)].data, 0)

\* The variant each facade method expects as its reply.
Expected(o) == IF o = "get_loxapp3_json" THEN "BinaryText" ELSE "Text"

\* C14: a call whose recv returned another variant than the one it expects
\* ends with an error returned to its caller.
C14_WrongVariantIsError ==
    (LastGotMessage /\ last.msg.v # Expected(last.op)) =>
        (last.outcome = "err" /\ pc # "panicked")

\* C15: a call whose reply carries an LL.Code other than "200" returns an
\* error to its caller, and the client goes on.
C15_ServerErrorSurfaced ==
    (/\ LastGotMessage
     /\ last.msg.v = Expected(last.op)
     /\ json_ok(last.msg.data)
     /\ last.msg.data[3] # 50) =>
        (last.outcome = "err" /\ pc # "panicked")

\* C16: one Session per connection, its key, IV and salt fixed: at most one
\* Session is ever made, and every command built from a session (the key
\* bundle of a key exchange, an encrypted command) is built from the same one.
C16_SessionFixed ==
    /\ session <= 1
    /\ \A i, j \in 1..Len(tx) :
          (tx[i].key # 0 /\ tx[j].key # 0) => tx[i].key = tx[j].key

\* The commands written to the transport whose reply has not been consumed:
\* those the server has not answered and those whose reply text is still on
\* the read half.
Unconsumed ==
    (Len(tx) - answered)
    + Cardinality({i \in 1..Len(rx) : rx[i].t = "text" /\ Serial(rx[i].data) >= 1})

\* C17: at most one command is outstanding in every reachable state.
C17_OneOutstanding == Unconsumed <= 1

\* C18: enable_status_update terminates: once the Text reply to
\* jdev/sps/enablebinstatusupdate has been received the call returns Ok to
\* its caller.
C18_StatusUpdateReturns ==
    (op = "enable_status_update" /\ stage = 2)
        ~> (pc = "idle" /\ last.op = "enable_status_update" /\ last.outcome = "ok")

\* C19: decoding the concatenation of k well-formed records of one variant
\* succeeds and yields exactly these k records, fields equal, in their order.
C19_DecoderRoundTrip ==
    /\ pc # "panicked"
    /\ printed # <<>> => returned.v = "EventTable"
    /\ returned.v = "EventTable" =>
          LET inputs == {recs \in SeqsUpTo(Records(returned.tbl), MaxRecords) :
                            EncodeTable(returned.tbl, recs) = consumed[2].data}
          IN /\ inputs # {}
             /\ \A recs \in inputs : returned.data = recs

\* C19's case: two different records, the first with nested entries, decoded.
C19_Witness ==
    /\ returned.v = "EventTable"
    /\ returned.tbl = "DaytimerEvents"
    /\ Len(returned.data) = 2
    /\ returned.data[1] # returned.data[2]
    /\ Len(returned.data[1].entries) = 2

\* The events i.. of a decoded text table lie in pack from byte n on, each in
\* 36 + L + ((4 - L mod 4) mod 4) bytes, L the length prefix at its bytes
\* 32..36: its text is the L bytes after the prefix, its padding bytes belong
\* to no text, and the last record ends where pack ends.
RECURSIVE TextLayout(_, _, _, _)
TextLayout(events, pack, i, n) ==
    IF i > Len(events) THEN n = Len(pack)
    ELSE /\ n + 36 <= Len(pack)
         /\ LET L == U32LE(Slice(pack, n + 32, n + 36))
                size == 36 + L + ((4 - (L % 4)) % 4)
            IN /\ n + size <= Len(pack)
               /\ Len(events[i].text) = L
               /\ events[i].text = Slice(pack, n + 36, n + 36 + L)
               /\ events[i].uuid = Reverse(Slice(pack, n, n + 16))
               /\ TextLayout(events, pack, i + 1, n + size)

\* C20: a text event of text length L takes 36 + L + ((4 - L mod 4) mod 4)
\* bytes of the payload, its text is the L text bytes without padding, and
\* the next record is read right after the padding.
C20_TextPadding ==
    /\ pc # "panicked"
    /\ (returned.v = "EventTable" /\ returned.tbl = "TextEvents") =>
          TextLayout(returned.data, consumed[2].data, 1, 0)

\* C20's case: a text of length 1 with three padding bytes, and a record
\* read after it.
C20_Witness ==
    /\ returned.v = "EventTable" /\ returned.tbl = "TextEvents"
    /\ Len(returned.data) = 2
    /\ Len(returned.data[1].text) = 1
    /\ Len(returned.data[2].text) = 5

\* What the server writes in one piece: a logical message of the menu, a reply
\* in either form, a refusal, the part of a message written before the
\* transport closed, a transport error.
ServerMsgs ==
    CodecMenu \cup (CloseMenu \ {<<>>}) \cup {<<ErrItem>>}
    \cup {ReplyMsg(form, i) : form \in {"A", "B"}, i \in 1..Len(tx)}
    \cup {ErrorReplyMsg(i) : i \in 1..Len(tx)}

IsPrefix(m, s) == Len(m) <= Len(s) /\ SubSeq(s, 1, Len(m)) = m

\* s starts at the first frame of something the server wrote and is made of
\* such pieces to its end.
RECURSIVE Aligned(_)
Aligned(s) ==
    \/ s = <<>>
    \/ \E m \in ServerMsgs :
          IsPrefix(m, s) /\ Aligned(SubSeq(s, Len(m) + 1, Len(s)))

\* C21: a read that returns a logical message has consumed 1 + a + b frames,
\* a = 1 when the first header's info byte is not 0x00, b = 0 for the
\* identifiers 0x05 and 0x06 and 1 otherwise; and as long as every read
\* returned (none was dropped half-way), whenever a read is about to start
\* the read half starts at a frame the server wrote as a header.
C21_FrameAlignment ==
    /\ returned # NoMsg =>
          Len(consumed) = 1 + (IF consumed[1].data[3] # 0 THEN 1 ELSE 0)
                            + (IF consumed[1].data[2] \in {5, 6} THEN 0 ELSE 1)
    /\ (pc = "hdr" /\ ndrops = 0) => Aligned(rx)

\* C21's case: a message with two headers and a payload was returned, and the
\* next read is about to start on a further message.
C21_Witness ==
    /\ returned # NoMsg
    /\ consumed[1].data[3] # 0
    /\ Len(consumed) = 3
    /\ pc = "hdr"
    /\ rx # <<>>

\* C22: an encrypted command is written only from a session: no jdev/sys/enc
\* command is on the transport while no key_exchange has run, and a get_jwt
\* on such a connection sends jdev/sys/getkey2, consumes its reply and aborts.
C22_EncOnlyWithSession ==
    /\ \A i \in 1..Len(tx) : tx[i].cmd = "jdev/sys/enc" => (session # 0 /\ tx[i].key # 0)
    /\ (session = 0 /\ ncalls > 0 /\ last.op = "get_jwt") => last.outcome # "ok"
    /\ (session = 0 /\ pc = "send_enc") =>
          (tx[Len(tx)].cmd = "jdev/sys/getkey2" /\ returned.v = "Text")
    /\ last.why = "session unwrap on None" =>
          (/\ pc = "panicked"
           /\ session = 0
           /\ tx[Len(tx)].cmd = "jdev/sys/getkey2"
           /\ returned.v = "Text")

\* C22's case: get_jwt without a session got the reply to getkey2 and aborted.
C22_Witness ==
    /\ session = 0
    /\ last.op = "get_jwt"
    /\ last.why = "session unwrap on None"
    /\ pc = "panicked"
    /\ returned.v = "Text"

=============================================================================
